---------------------------- MODULE Spec2Model ----------------------------
(***************************************************************************)
(* A model of the receipt processor web service (src/main.go, and the      *)
(* earlier revision of the same file kept as src/unnamed/part_000).        *)
(*                                                                         *)
(* Go strings are byte sequences.  A string is modelled here as a sequence *)
(* of characters, each character a one-element TLA+ string ("a", "0", ".") *)
(* or, for the two non-ASCII characters of the model, its code point name  *)
(* ("U+00E9", "U+00A0"); UTF8 gives the bytes of a string, which is what   *)
(* len() and slicing see.                                                  *)
(***************************************************************************)
EXTENDS Integers, Sequences, FiniteSets, TLC

VARIABLES
    receipts,   \* main.go:31   the in-memory map id -> Receipt
    nextID,     \* number of identifiers generateID has handed out
    pc,         \* per request goroutine: where its handler stands
    held,       \* per goroutine: the (id, receipt) of the map write in progress
    resp,       \* the last response written to a client
    crashed,    \* the Go runtime ended the process (fatal error)
    input,      \* core check: the receipt under test
    phase,      \* core check: which functions have been applied to input
    verdict,    \* core check: result of the validation of input
    score,      \* core check: result of calculatePoints (main.go) on input
    scoreOld    \* core check: result of calculatePoints (part_000) on input

vars == <<receipts, nextID, pc, held, resp, crashed,
          input, phase, verdict, score, scoreOld>>

serviceVars == <<receipts, nextID, pc, held, resp, crashed>>
coreVars == <<input, phase, verdict, score, scoreOld>>

---------------------------------------------------------------------------
(* Characters and strings                                                  *)

DigitSeq == <<"0", "1", "2", "3", "4", "5", "6", "7", "8", "9">>

AsciiDigit == {DigitSeq[i] : i \in 1..10}

AsciiUpper == {"A", "B", "C", "D", "E", "F", "G", "H", "I", "J", "K", "L", "M",
               "N", "O", "P", "Q", "R", "S", "T", "U", "V", "W", "X", "Y", "Z"}

AsciiLower == {"a", "b", "c", "d", "e", "f", "g", "h", "i", "j", "k", "l", "m",
               "n", "o", "p", "q", "r", "s", "t", "u", "v", "w", "x", "y", "z"}

\* RE2's \s: [\t\n\f\r ]
RegexSpace == {" ", "\t", "\n", "\f", "\r"}

\* unicode.IsSpace, as far as the model's characters go (U+00A0 is NBSP)
UnicodeSpace == RegexSpace \cup {"U+00A0"}

\* The UTF-8 encoding of one character: both non-ASCII characters of the
\* model (U+00E9 e-acute, U+00A0 NBSP) take two bytes.
UTF8Char(c) ==
    CASE c = "U+00E9" -> <<"0xC3", "0xA9">>
      [] c = "U+00A0" -> <<"0xC2", "0xA0">>
      [] OTHER -> <<c>>

RECURSIVE UTF8(_)
UTF8(s) == IF s = <<>> THEN <<>> ELSE UTF8Char(Head(s)) \o UTF8(Tail(s))

\* len(s) of a Go string: its number of bytes
GoLen(s) == Len(UTF8(s))

DigitVal(c) == (CHOOSE i \in 1..10 : DigitSeq[i] = c) - 1

\* isDigit(s, i) of package time, i counted from 0
isDigit(b, i) == i < Len(b) /\ b[i + 1] \in AsciiDigit

\* b[from:] of a byte sequence, from counted from 0
Drop(b, from) == SubSeq(b, from + 1, Len(b))

---------------------------------------------------------------------------
(* regexp.MustCompile(`^[A-Za-z0-9\s]+$`).MatchString                      *)

RetailerMatch(s) ==
    LET b == UTF8(s)
    IN  /\ Len(b) >= 1
        /\ \A i \in 1..Len(b) :
              b[i] \in AsciiUpper \cup AsciiLower \cup AsciiDigit \cup RegexSpace

---------------------------------------------------------------------------
(* time.Parse                                                              *)

\* getnum(s, fixed) of package time: one or two leading digits, exactly two
\* when fixed.  Returns the number, the rest, and whether it failed.
getnum(b, fixed) ==
    IF ~isDigit(b, 0) THEN [n |-> 0, rest |-> b, err |-> TRUE]
    ELSE IF ~isDigit(b, 1)
         THEN IF fixed THEN [n |-> 0, rest |-> b, err |-> TRUE]
              ELSE [n |-> DigitVal(b[1]), rest |-> Drop(b, 1), err |-> FALSE]
         ELSE [n |-> DigitVal(b[1]) * 10 + DigitVal(b[2]),
               rest |-> Drop(b, 2), err |-> FALSE]

isLeap(year) == year % 4 = 0 /\ (year % 100 # 0 \/ year % 400 = 0)

daysIn(month, year) ==
    IF month = 2 THEN (IF isLeap(year) THEN 29 ELSE 28)
    ELSE IF month \in {4, 6, 9, 11} THEN 30 ELSE 31

\* time.Parse("2006-01-02", s): a four-digit year, "-", a two-digit month in
\* 1..12, "-", a two-digit day that exists in that month, and nothing more.
ParseDate(s) ==
    LET b == UTF8(s)
        bad == [err |-> TRUE, year |-> 0, month |-> 0, day |-> 0]
    IN  IF Len(b) < 4 \/ \E i \in 0..3 : ~isDigit(b, i) THEN bad
        ELSE
        LET year == DigitVal(b[1]) * 1000 + DigitVal(b[2]) * 100
                      + DigitVal(b[3]) * 10 + DigitVal(b[4])
            b1 == Drop(b, 4)
        IN  IF Len(b1) < 1 \/ b1[1] # "-" THEN bad
            ELSE
            LET m == getnum(Drop(b1, 1), TRUE)
            IN  IF m.err \/ m.n <= 0 \/ 12 < m.n THEN bad
                ELSE IF Len(m.rest) < 1 \/ m.rest[1] # "-" THEN bad
                ELSE
                LET d == getnum(Drop(m.rest, 1), TRUE)
                IN  IF d.err \/ Len(d.rest) > 0 THEN bad
                    ELSE IF d.n < 1 \/ d.n > daysIn(m.n, year) THEN bad
                    ELSE [err |-> FALSE, year |-> year, month |-> m.n, day |-> d.n]

\* time.Parse("15:04", s): an hour of one or two digits below 24, ":", a
\* two-digit minute below 60, and nothing more.
ParseTime(s) ==
    LET b == UTF8(s)
        bad == [err |-> TRUE, hour |-> 0, min |-> 0]
        h == getnum(b, FALSE)
    IN  IF h.err \/ 24 <= h.n THEN bad
        ELSE IF Len(h.rest) < 1 \/ h.rest[1] # ":" THEN bad
        ELSE
        LET m == getnum(Drop(h.rest, 1), TRUE)
        IN  IF m.err \/ 60 <= m.n \/ Len(m.rest) > 0 THEN bad
            ELSE [err |-> FALSE, hour |-> h.n, min |-> m.n]

---------------------------------------------------------------------------
(* strconv.ParseFloat(s, 64), syntax.  The model's strings hold no         *)
(* exponent, hexadecimal, underscore, "inf" or "nan" forms (no character   *)
(* of NumericAlphabet can start one), so a number is an optional sign and  *)
(* decimal digits with at most one point and at least one digit.           *)

NumericAlphabet == AsciiDigit \cup {".", "+", "-", " ", "a", "b", "c", "U+00E9"}

HasSign(b) == Len(b) >= 1 /\ b[1] \in {"+", "-"}

Unsigned(b) == IF HasSign(b) THEN Drop(b, 1) ELSE b

\* strconv.ParseFloat returns a nil error
ParseFloatOk(s) ==
    LET u == Unsigned(UTF8(s))
        dots == {i \in 1..Len(u) : u[i] = "."}
    IN  /\ \A i \in 1..Len(u) : u[i] \in AsciiDigit \cup {"."}
        /\ Cardinality(dots) <= 1
        /\ \E i \in 1..Len(u) : u[i] \in AsciiDigit

---------------------------------------------------------------------------
(* Unbounded naturals for the float64 arithmetic below: a natural is a     *)
(* sequence of NLimbs limbs, least significant first, each below LimbBase. *)
(* (TLC's own integers are 32 bits wide; a float64 mantissa has 53.)       *)

NLimbs == 9

LimbBase == 32 * 1024

LimbBits == CHOOSE n \in 1..30 : 2 ^ n = LimbBase

Limbs == 1..NLimbs

\* a natural as an explicit tuple of its limbs (TLC would otherwise keep the
\* function unevaluated and recompute each limb at every use)
Limbed(f) == SubSeq(f, 1, NLimbs)

BZero == Limbed([i \in Limbs |-> 0])

\* a natural below 2^30
BFromInt(n) ==
    Limbed([i \in Limbs |-> IF i = 1 THEN n % LimbBase
                            ELSE IF i = 2 THEN (n \div LimbBase) % LimbBase
                            ELSE IF i = 3 THEN n \div (LimbBase * LimbBase)
                            ELSE 0])

\* the value of a natural that is below 2^30
BToInt(x) == x[1] + x[2] * LimbBase + x[3] * LimbBase * LimbBase

BIsZero(x) == \A i \in Limbs : x[i] = 0

\* x * k + c for small k and c (k <= LimbBase, c < LimbBase)
BMulSmallAdd(x, k, c) ==
    LET carry[i \in 1..NLimbs] ==
            IF i = 1 THEN c ELSE (x[i - 1] * k + carry[i - 1]) \div LimbBase
    IN  Limbed([i \in Limbs |-> (x[i] * k + carry[i]) % LimbBase])

BAdd(x, y) ==
    LET carry[i \in 1..NLimbs] ==
            IF i = 1 THEN 0 ELSE (x[i - 1] + y[i - 1] + carry[i - 1]) \div LimbBase
    IN  Limbed([i \in Limbs |-> (x[i] + y[i] + carry[i]) % LimbBase])

\* the quotient and the remainder of x by a small k (k < LimbBase)
BDivSmall(x, k) ==
    LET remIn[i \in 1..NLimbs] ==
            IF i = NLimbs THEN 0 ELSE (remIn[i + 1] * LimbBase + x[i + 1]) % k
    IN  [quot |-> Limbed([i \in Limbs |-> (remIn[i] * LimbBase + x[i]) \div k]),
         rem  |-> (remIn[1] * LimbBase + x[1]) % k]

\* the number of bits of a limb: 0 for 0, n when 2^(n-1) <= v < 2^n
LimbBitLen(v) ==
    IF v = 0 THEN 0 ELSE CHOOSE n \in 1..LimbBits : 2 ^ (n - 1) <= v /\ v < 2 ^ n

BBitLen(x) ==
    IF BIsZero(x) THEN 0
    ELSE LET h == CHOOSE i \in Limbs : x[i] # 0 /\ \A j \in Limbs : j > i => x[j] = 0
         IN  LimbBits * (h - 1) + LimbBitLen(x[h])

\* limb i of x, 0 outside the limbs
BLimb(x, i) == IF i \in Limbs THEN x[i] ELSE 0

\* x * 2^s
BShl(x, s) ==
    LET ls == s \div LimbBits
        bs == s % LimbBits
    IN  Limbed([i \in Limbs |->
            ((BLimb(x, i - ls) * 2 ^ bs) % LimbBase)
              + (BLimb(x, i - ls - 1) \div 2 ^ (LimbBits - bs))])

\* x \div 2^s
BShr(x, s) ==
    LET ls == s \div LimbBits
        bs == s % LimbBits
    IN  Limbed([i \in Limbs |->
            (BLimb(x, i + ls) \div 2 ^ bs)
              + ((BLimb(x, i + ls + 1) % 2 ^ bs) * 2 ^ (LimbBits - bs))])

\* x % 2^s
BLowBits(x, s) ==
    LET ls == s \div LimbBits
        bs == s % LimbBits
    IN  Limbed([i \in Limbs |-> IF i <= ls THEN x[i]
                                ELSE IF i = ls + 1 THEN x[i] % 2 ^ bs
                                ELSE 0])

\* bit j of x, j counted from 0
BBit(x, j) == (BLimb(x, j \div LimbBits + 1) \div 2 ^ (j % LimbBits)) % 2

\* x * y, row by row
BMul(x, y) ==
    LET acc[i \in 0..NLimbs] ==
            IF i = 0 THEN BZero
            ELSE IF x[i] = 0 THEN acc[i - 1]
            ELSE BAdd(acc[i - 1],
                      BShl(BMulSmallAdd(y, x[i], 0), LimbBits * (i - 1)))
    IN  acc[NLimbs]

\* the natural written by a sequence of decimal digits
RECURSIVE BFromDigits(_)
BFromDigits(ds) ==
    IF ds = <<>> THEN BZero
    ELSE BMulSmallAdd(BFromDigits(SubSeq(ds, 1, Len(ds) - 1)), 10,
                      DigitVal(ds[Len(ds)]))

---------------------------------------------------------------------------
(* float64: [neg, man, exp] is (-1)^neg * man * 2^exp with man = 0 (and    *)
(* exp = 0) or 2^52 <= man < 2^53.  The values of the model are far from   *)
(* the subnormal and the overflow range.                                   *)

MantBits == 53

FZero(neg) == [neg |-> neg, man |-> BZero, exp |-> 0]

FIsZero(f) == BIsZero(f.man)

\* The float64 nearest to (-1)^neg * (n + t) * 2^e, ties to even, where
\* 0 <= t < 1 and sticky says t > 0 (then n has more than MantBits + 1 bits).
FRound(neg, n, e, sticky) ==
    LET len == BBitLen(n)
    IN  IF len = 0 THEN FZero(neg)
        ELSE IF len <= MantBits
        THEN [neg |-> neg, man |-> BShl(n, MantBits - len), exp |-> e - (MantBits - len)]
        ELSE
        LET s == len - MantBits
            q == BShr(n, s)
            guard == BBit(n, s - 1) = 1
            rest == sticky \/ ~BIsZero(BLowBits(n, s - 1))
            up == guard /\ (rest \/ BBit(q, 0) = 1)
            q2 == IF up THEN BMulSmallAdd(q, 1, 1) ELSE q
        IN  IF BBitLen(q2) > MantBits
            THEN [neg |-> neg, man |-> BShr(q2, 1), exp |-> e + s + 1]
            ELSE [neg |-> neg, man |-> q2, exp |-> e + s]

\* n / 10^d as a quotient scaled by 2^k, with the sticky bit of the division
RECURSIVE DivPow10(_, _, _)
DivPow10(n, d, sticky) ==
    IF d = 0 THEN [quot |-> n, sticky |-> sticky]
    ELSE LET r == BDivSmall(n, 10)
         IN  DivPow10(r.quot, d - 1, sticky \/ r.rem # 0)

\* strconv.ParseFloat(s, 64), value: the float64 nearest to the decimal
\* number written ("the nearest floating-point number rounded using IEEE754
\* unbiased rounding"); 0 with the error when s is not a number.
ParseFloatVal(s) ==
    IF ~ParseFloatOk(s) THEN FZero(FALSE)
    ELSE
    LET b == UTF8(s)
        neg == HasSign(b) /\ b[1] = "-"
        u == Unsigned(b)
        digits == SelectSeq(u, LAMBDA c : c # ".")
        dot == IF \E i \in 1..Len(u) : u[i] = "."
               THEN CHOOSE i \in 1..Len(u) : u[i] = "." ELSE Len(u) + 1
        d == IF dot > Len(u) THEN 0 ELSE Len(u) - dot
        n == BFromDigits(digits)
        k == MantBits + 2 + 4 * d
        r == DivPow10(BShl(n, k), d, FALSE)
    IN  IF d = 0 THEN FRound(neg, n, 0, FALSE)
        ELSE FRound(neg, r.quot, 0 - k, r.sticky)

\* float64(i) for an int below 2^30 in magnitude
FFromInt(i) == FRound(i < 0, BFromInt(IF i < 0 THEN 0 - i ELSE i), 0, FALSE)

\* x * y in float64
FMul(x, y) ==
    IF FIsZero(x) \/ FIsZero(y) THEN FZero(x.neg # y.neg)
    ELSE FRound(x.neg # y.neg, BMul(x.man, y.man), x.exp + y.exp, FALSE)

\* x == y in float64 (the two zeros are equal)
FEq(x, y) == (FIsZero(x) /\ FIsZero(y)) \/ x = y

\* the integer part of |f|, below 2^30
FTruncAbs(f) ==
    IF FIsZero(f) THEN 0
    ELSE IF f.exp >= 0 THEN BToInt(BShl(f.man, f.exp))
    ELSE IF 0 - f.exp >= MantBits THEN 0
    ELSE BToInt(BShr(f.man, 0 - f.exp))

\* whether f has a fractional part
FHasFraction(f) ==
    /\ ~FIsZero(f)
    /\ f.exp < 0
    /\ (0 - f.exp >= MantBits \/ ~BIsZero(BLowBits(f.man, 0 - f.exp)))

\* int(f): truncation toward zero
GoInt(f) == IF f.neg THEN 0 - FTruncAbs(f) ELSE FTruncAbs(f)

\* math.Ceil(f)
Ceil(f) ==
    IF ~FHasFraction(f) THEN f
    ELSE IF f.neg
         THEN (IF FTruncAbs(f) = 0 THEN FZero(TRUE) ELSE FFromInt(0 - FTruncAbs(f)))
         ELSE FFromInt(FTruncAbs(f) + 1)

\* math.Mod(x, y) for y a power of two (0.25 in the source): the exact
\* remainder, with the sign of x.
Mod(x, y) ==
    LET k == y.exp + MantBits - 1
        s == k - x.exp
    IN  IF FIsZero(x) THEN x
        ELSE IF s <= 0 THEN FZero(x.neg)
        ELSE IF s > MantBits THEN x
        ELSE FRound(x.neg, BLowBits(x.man, s), x.exp, FALSE)

\* a / b of two Go ints, b > 0: the quotient is truncated toward zero
GoDiv(a, b) == IF a >= 0 THEN a \div b ELSE 0 - ((0 - a) \div b)

---------------------------------------------------------------------------
(* main.go:16-28.  A Receipt is a record [Retailer, PurchaseDate,          *)
(* PurchaseTime, Items, Total]; an Item a record [ShortDescription, Price].*)

Item(desc, price) == [ShortDescription |-> desc, Price |-> price]

Receipt(retailer, date, time, items, total) ==
    [Retailer |-> retailer, PurchaseDate |-> date, PurchaseTime |-> time,
     Items |-> items, Total |-> total]

---------------------------------------------------------------------------
(* The validation of processReceipts, main.go:58-87: the checks in the     *)
(* order of the code, each returning at once with its error message.       *)

\* the loop over receipt.Items, from item i on
RECURSIVE ValidateItems(_, _)
ValidateItems(items, i) ==
    IF i > Len(items) THEN "ok"
    ELSE IF items[i].ShortDescription = <<>> THEN "Item description cannot be empty"
    ELSE IF ~ParseFloatOk(items[i].Price) THEN "Invalid item price"
    ELSE ValidateItems(items, i + 1)

\* the same checks with the price of an item looked at before its description
RECURSIVE ValidateItemsPriceFirst(_, _)
ValidateItemsPriceFirst(items, i) ==
    IF i > Len(items) THEN "ok"
    ELSE IF ~ParseFloatOk(items[i].Price) THEN "Invalid item price"
    ELSE IF items[i].ShortDescription = <<>> THEN "Item description cannot be empty"
    ELSE ValidateItemsPriceFirst(items, i + 1)

ValidatePriceFirst(receipt) ==
    IF ~RetailerMatch(receipt.Retailer) THEN "Invalid retailer name"
    ELSE IF ParseDate(receipt.PurchaseDate).err THEN "Invalid purchase date"
    ELSE IF ParseTime(receipt.PurchaseTime).err THEN "Invalid purchase time"
    ELSE ValidateItemsPriceFirst(receipt.Items, 1)

Validate(receipt) ==
    IF ~RetailerMatch(receipt.Retailer) THEN "Invalid retailer name"
    ELSE IF ParseDate(receipt.PurchaseDate).err THEN "Invalid purchase date"
    ELSE IF ParseTime(receipt.PurchaseTime).err THEN "Invalid purchase time"
    ELSE ValidateItems(receipt.Items, 1)

---------------------------------------------------------------------------
(* calculatePoints, main.go:109-155                                        *)

\* main.go:103-106: the error of ParseFloat is dropped, the value kept
stringToFloat64(total) == ParseFloatVal(total)

\* the constants 0.25, 0.2 and 100 of the source, as float64
Float025 == ParseFloatVal(<<"0", ".", "2", "5">>)

Float02 == ParseFloatVal(<<"0", ".", "2">>)

Float100 == FFromInt(100)

\* strings.TrimSpace
RECURSIVE TrimLeft(_)
TrimLeft(s) ==
    IF s # <<>> /\ Head(s) \in UnicodeSpace THEN TrimLeft(Tail(s)) ELSE s

RECURSIVE TrimRight(_)
TrimRight(s) ==
    IF s # <<>> /\ s[Len(s)] \in UnicodeSpace
    THEN TrimRight(SubSeq(s, 1, Len(s) - 1)) ELSE s

TrimSpace(s) == TrimRight(TrimLeft(s))

\* Rule 1 (main.go:113-117): the loop ranges over the characters
Rule1(receipt) ==
    Cardinality({i \in 1..Len(receipt.Retailer) :
        receipt.Retailer[i] \in AsciiLower \cup AsciiUpper \cup AsciiDigit})

\* Rule 2 (main.go:120): receipt.Total[len(receipt.Total)-3:] panics (slice
\* bounds out of range) when the total has fewer than three bytes
Rule2Panics(receipt) ==
    receipt.Total # <<"0">> /\ GoLen(receipt.Total) < 3

Rule2(receipt) ==
    LET b == UTF8(receipt.Total)
    IN  IF receipt.Total = <<"0">> \/ Drop(b, Len(b) - 3) = <<".", "0", "0">>
        THEN 50 ELSE 0

\* Rule 3 with the remainder taken modulo 0.5
Rule3Half(receipt) ==
    IF \/ receipt.Total = <<"0">>
       \/ FIsZero(Mod(stringToFloat64(receipt.Total), FMul(Float025, FFromInt(2))))
    THEN 25 ELSE 0

\* Rule 3 (main.go:125)
Rule3(receipt) ==
    IF \/ receipt.Total = <<"0">>
       \/ FEq(Mod(stringToFloat64(receipt.Total), Float025), FZero(FALSE))
    THEN 25 ELSE 0

\* Rule 3 of the earlier revision (part_000:83)
Rule3Old(receipt) ==
    LET total == stringToFloat64(receipt.Total)
        cents == GoInt(FMul(Float100, total))
    IN  IF \/ receipt.Total = <<"0">>
           \/ FEq(FMul(FFromInt(GoDiv(cents, 25)), Float025), total)
        THEN 25 ELSE 0

\* Rule 4 (main.go:130)
Rule4(receipt) == GoDiv(Len(receipt.Items), 2) * 5

\* Rule 5 for one item (main.go:134-136)
Rule5Item(item) ==
    IF GoLen(TrimSpace(item.ShortDescription)) % 3 = 0
    THEN GoInt(Ceil(FMul(stringToFloat64(item.Price), Float02)))
    ELSE 0

\* Rule 5 (main.go:133-137)
RECURSIVE Rule5Sum(_, _)
Rule5Sum(items, i) ==
    IF i > Len(items) THEN 0 ELSE Rule5Item(items[i]) + Rule5Sum(items, i + 1)

Rule5(receipt) == Rule5Sum(receipt.Items, 1)

\* Rule 6 (main.go:140-143)
Rule6(receipt) ==
    LET purchaseDate == ParseDate(receipt.PurchaseDate)
    IN  IF ~purchaseDate.err /\ purchaseDate.day % 2 = 1 THEN 6 ELSE 0

\* Rule 7 (main.go:146-152)
Rule7(receipt) ==
    LET purchaseTime == ParseTime(receipt.PurchaseTime)
    IN  IF ~purchaseTime.err /\ purchaseTime.hour >= 14 /\ purchaseTime.hour < 16
        THEN 10 ELSE 0

NoScore ==
    [kind |-> "none", points |-> 0,
     r1 |-> 0, r2 |-> 0, r3 |-> 0, r4 |-> 0, r5 |-> 0, r6 |-> 0, r7 |-> 0]

\* The run of calculatePoints with a given rule 3: a panic, or the points
\* returned together with what each rule added to them.
PointsWith(receipt, rule3) ==
    IF Rule2Panics(receipt) THEN [NoScore EXCEPT !.kind = "panic"]
    ELSE
    LET r1 == Rule1(receipt)
        r2 == Rule2(receipt)
        r4 == Rule4(receipt)
        r5 == Rule5(receipt)
        r6 == Rule6(receipt)
        r7 == Rule7(receipt)
    IN  [kind |-> "ok", points |-> r1 + r2 + rule3 + r4 + r5 + r6 + r7,
         r1 |-> r1, r2 |-> r2, r3 |-> rule3, r4 |-> r4, r5 |-> r5,
         r6 |-> r6, r7 |-> r7]

\* calculatePoints of main.go
calculatePoints(receipt) ==
    PointsWith(receipt, IF Rule2Panics(receipt) THEN 0 ELSE Rule3(receipt))

\* calculatePoints of the earlier revision (part_000:67-113)
calculatePointsOld(receipt) ==
    PointsWith(receipt, IF Rule2Panics(receipt) THEN 0 ELSE Rule3Old(receipt))

---------------------------------------------------------------------------
(* The receipts the checks below run on                                    *)

MaxCents == 1100

MaxNegCents == 60

MaxPriceCents == 1600

MaxItems == 2

RECURSIVE NatDigits(_)
NatDigits(n) ==
    IF n < 10 THEN <<DigitSeq[n + 1]>>
    ELSE Append(NatDigits(n \div 10), DigitSeq[(n % 10) + 1])

\* an amount of c >= 0 cents written with two fractional digits: 1025 is "10.25"
FormatCents(c) ==
    NatDigits(c \div 100) \o <<".", DigitSeq[((c \div 10) % 10) + 1], DigitSeq[(c % 10) + 1]>>

Target == <<"T", "a", "r", "g", "e", "t">>

Retailers == {Target, <<>>, <<"M", "&", "M">>, <<"A", " ", "1">>}

OddDay == <<"2", "0", "2", "2", "-", "0", "1", "-", "0", "1">>

EvenDay == <<"2", "0", "2", "2", "-", "0", "1", "-", "0", "2">>

Dates == {OddDay, EvenDay,
          <<"2", "0", "2", "2", "-", "0", "2", "-", "3", "0">>,
          <<"2", "0", "2", "2", "-", "1", "-", "0", "2">>}

Noon == <<"1", "3", ":", "0", "1">>

Times == {Noon, <<"1", "4", ":", "3", "0">>, <<"1", "6", ":", "0", "0">>,
          <<"2", "4", ":", "0", "0">>, <<"9", ":", "3", "0">>}

Abc == <<"a", "b", "c">>

\* descriptions: empty, 3 bytes, 2 bytes, 3 after trimming, blank (0 after
\* trimming), 2 characters in 3 bytes, 3 characters in 4 bytes
Descriptions ==
    {<<>>, Abc, <<"a", "b">>, <<" ", "a", "b", "c", " ">>, <<" ", " ">>,
     <<"U+00E9", "a">>, <<"U+00E9", "b", "c">>}

SamplePrices ==
    {FormatCents(1000), FormatCents(1), Abc, <<>>, <<"5">>,
     <<"-">> \o FormatCents(10000), <<"-">> \o FormatCents(250)}

SpecialTotals ==
    {<<"0">>, <<>>, <<"5">>, <<"1", "0">>, Abc, <<".", "0", "0">>,
     <<"1", ".", "5">>, <<"a", ".", "0", "0">>, <<"U+00E9">>, <<"U+00E9", "a">>,
     <<"3", "5", ".", "3", "5", "0">>}

Totals ==
    {FormatCents(c) : c \in 0..MaxCents}
      \cup {<<"-">> \o FormatCents(c) : c \in 0..MaxNegCents}
      \cup SpecialTotals

SampleItems ==
    {Item(d, p) : d \in {<<>>, Abc, <<"a", "b">>},
                  p \in {FormatCents(1000), Abc, <<"-">> \o FormatCents(10000)}}

ItemLists(items) == UNION {[1..n -> items] : n \in 0..MaxItems}

BaseTotal == FormatCents(3535)

\* the receipts that differ in what the validation looks at
ValidationInputs ==
    {Receipt(r, d, t, i, BaseTotal) :
        r \in Retailers, d \in Dates, t \in Times, i \in ItemLists(SampleItems)}

\* the receipts that differ in their total
TotalInputs ==
    {Receipt(Target, OddDay, Noon, <<Item(Abc, FormatCents(1000))>>, t) : t \in Totals}

\* the receipts of one item that differ in it
ItemInputs ==
    {Receipt(Target, EvenDay, Noon, <<Item(d, p)>>, BaseTotal) :
        d \in Descriptions,
        p \in SamplePrices \cup {FormatCents(c) : c \in {0, 1, 499, 500, 501, 1000, 1500}}}
      \cup {Receipt(<<"A">>, EvenDay, Noon, <<Item(Abc, FormatCents(c))>>, BaseTotal) :
              c \in 0..MaxPriceCents}

CoreInputs == ValidationInputs \cup TotalInputs \cup ItemInputs

---------------------------------------------------------------------------
(* The core check: one receipt, validated, then scored by both revisions   *)

NumWorkers == 2

MaxReceipts == 2

\* the goroutines net/http runs the handlers on, one per request in flight
Workers == 1..NumWorkers

NoResponse == [op |-> "none", status |-> 0, error |-> "", id |-> 0, points |-> 0]

NoWrite == [id |-> 0, receipt |-> Receipt(<<>>, <<>>, <<>>, <<>>, <<>>)]

\* main.go:31: the map is empty, no request is in flight
ServiceInit ==
    /\ receipts = <<>>
    /\ nextID = 0
    /\ pc = [w \in Workers |-> "idle"]
    /\ held = [w \in Workers |-> NoWrite]
    /\ resp = NoResponse
    /\ crashed = FALSE

CoreInit ==
    /\ input \in CoreInputs
    /\ phase = "new"
    /\ verdict = "none"
    /\ score = NoScore
    /\ scoreOld = NoScore
    /\ ServiceInit

CoreValidate ==
    /\ phase = "new"
    /\ verdict' = Validate(input)
    /\ phase' = "validated"
    /\ UNCHANGED <<input, score, scoreOld>>
    /\ UNCHANGED serviceVars

CoreScore ==
    /\ phase = "validated"
    /\ score' = calculatePoints(input)
    /\ phase' = "scored"
    /\ UNCHANGED <<input, verdict, scoreOld>>
    /\ UNCHANGED serviceVars

CoreScoreOld ==
    /\ phase = "scored"
    /\ scoreOld' = calculatePointsOld(input)
    /\ phase' = "done"
    /\ UNCHANGED <<input, verdict, score>>
    /\ UNCHANGED serviceVars

CoreNext == CoreValidate \/ CoreScore \/ CoreScoreOld

SpecCore == CoreInit /\ [][CoreNext]_vars

---------------------------------------------------------------------------
(* Reference arithmetic for the properties: amounts in integer cents       *)

IsDigits(s) == Len(s) >= 1 /\ \A i \in 1..Len(s) : s[i] \in AsciiDigit

RECURSIVE DigitsValue(_)
DigitsValue(s) ==
    IF s = <<>> THEN 0
    ELSE DigitsValue(SubSeq(s, 1, Len(s) - 1)) * 10 + DigitVal(s[Len(s)])

\* digits, a point and two digits
IsTwoDecimal(s) ==
    /\ Len(s) >= 4
    /\ s[Len(s) - 2] = "."
    /\ IsDigits(SubSeq(s, 1, Len(s) - 3))
    /\ IsDigits(SubSeq(s, Len(s) - 1, Len(s)))

\* the same with an optional minus sign
IsSignedTwoDecimal(s) ==
    IsTwoDecimal(s) \/ (Len(s) >= 1 /\ s[1] = "-" /\ IsTwoDecimal(Tail(s)))

UnsignedCents(s) ==
    DigitsValue(SubSeq(s, 1, Len(s) - 3)) * 100 + DigitsValue(SubSeq(s, Len(s) - 1, Len(s)))

CentsOf(s) == IF s[1] = "-" THEN 0 - UnsignedCents(Tail(s)) ELSE UnsignedCents(s)

\* ceil(c / 500) of an integer c
CeilFifth(c) == 0 - ((0 - c) \div 500)

Scored == phase \in {"scored", "done"}

---------------------------------------------------------------------------
(* C1.  Scoring is total: every receipt the validation accepts is scored   *)
(* without a fault, and a total of fewer than three bytes other than "0"   *)
(* adds nothing under rule 2.                                              *)
C1_ScoringIsTotal ==
    (Scored /\ verdict = "ok") =>
        /\ score.kind = "ok"
        /\ (input.Total # <<"0">> /\ GoLen(input.Total) < 3) => score.r2 = 0

(* C2.  The points of an accepted receipt are never negative.              *)
C2_PointsNonNegative ==
    (Scored /\ verdict = "ok" /\ score.kind = "ok") => score.points >= 0

(* C3.  The validation reports the reason of the earliest violated check,  *)
(* in the order retailer, date, time, then item by item, the description   *)
(* of an item before its price; and accepts when no check is violated.     *)
ViolatedChecks(receipt) ==
    {c \in {<<1, "Invalid retailer name">>} : ~RetailerMatch(receipt.Retailer)}
      \cup {c \in {<<2, "Invalid purchase date">>} : ParseDate(receipt.PurchaseDate).err}
      \cup {c \in {<<3, "Invalid purchase time">>} : ParseTime(receipt.PurchaseTime).err}
      \cup {<<2 + 2 * i, "Item description cannot be empty">> :
              i \in {j \in 1..Len(receipt.Items) :
                        receipt.Items[j].ShortDescription = <<>>}}
      \cup {<<3 + 2 * i, "Invalid item price">> :
              i \in {j \in 1..Len(receipt.Items) :
                        ~ParseFloatOk(receipt.Items[j].Price)}}

C3_EarliestReason ==
    phase # "new" =>
        LET v == ViolatedChecks(input)
        IN  IF v = {} THEN verdict = "ok"
            ELSE \E c \in v : (\A d \in v : c[1] <= d[1]) /\ verdict = c[2]

\* a receipt whose second item has no description and whose first item has
\* a bad price, at a bad purchase time: the time is what is reported
C3_Witness ==
    /\ phase # "new"
    /\ Len(input.Items) = 2
    /\ input.Items[2].ShortDescription = <<>>
    /\ ~ParseFloatOk(input.Items[1].Price)
    /\ Cardinality(ViolatedChecks(input)) >= 3
    /\ verdict = "Invalid purchase time"

(* C6.  A total that does not parse as a number adds nothing under rule 3, *)
(* and an item whose price does not parse adds nothing under rule 5.       *)
C6_UnparsableAddsNothing ==
    (Scored /\ score.kind = "ok") =>
        /\ ~ParseFloatOk(input.Total) => score.r3 = 0
        /\ (\A i \in 1..Len(input.Items) : ~ParseFloatOk(input.Items[i].Price))
              => score.r5 = 0

(* C7.  For a total written with two fractional digits, rule 3 adds 25     *)
(* when the total in integer cents is divisible by 25 and 0 otherwise, in  *)
(* both revisions of calculatePoints; the total "0" adds 25.               *)
C7_Rule3IntegerCents ==
    (phase = "done" /\ (IsSignedTwoDecimal(input.Total) \/ input.Total = <<"0">>)) =>
        LET expected == IF input.Total = <<"0">> \/ CentsOf(input.Total) % 25 = 0
                        THEN 25 ELSE 0
        IN  /\ score.kind = "ok" /\ score.r3 = expected
            /\ scoreOld.kind = "ok" /\ scoreOld.r3 = expected

C7_Witness ==
    /\ phase = "done"
    /\ input.Total = FormatCents(1025)
    /\ score.r3 = 25
    /\ scoreOld.r3 = 25

(* C8.  Rule 5 adds, for each item whose trimmed description has a number  *)
(* of characters divisible by 3, ceil(c / 500) for a price of c cents, and *)
(* nothing for the other items.                                            *)
RECURSIVE Rule5ByCharacters(_, _)
Rule5ByCharacters(items, i) ==
    IF i > Len(items) THEN 0
    ELSE (IF Len(TrimSpace(items[i].ShortDescription)) % 3 = 0
          THEN CeilFifth(CentsOf(items[i].Price)) ELSE 0)
           + Rule5ByCharacters(items, i + 1)

C8_Rule5ByCharacters ==
    (/\ Scored
     /\ score.kind = "ok"
     /\ \A i \in 1..Len(input.Items) : IsSignedTwoDecimal(input.Items[i].Price))
        => score.r5 = Rule5ByCharacters(input.Items, 1)

\* the same with the length counted in bytes, as len() counts it
RECURSIVE Rule5ByBytes(_, _)
Rule5ByBytes(items, i) ==
    IF i > Len(items) THEN 0
    ELSE (IF GoLen(TrimSpace(items[i].ShortDescription)) % 3 = 0
          THEN CeilFifth(CentsOf(items[i].Price)) ELSE 0)
           + Rule5ByBytes(items, i + 1)

Rule5CeilingInBytes ==
    (/\ Scored
     /\ score.kind = "ok"
     /\ \A i \in 1..Len(input.Items) : IsSignedTwoDecimal(input.Items[i].Price))
        => score.r5 = Rule5ByBytes(input.Items, 1)

---------------------------------------------------------------------------
(* The service: processReceipts (main.go:50-100) and getPoints             *)
(* (main.go:158-174), each run by net/http on the goroutine of its         *)
(* request, over the shared map receipts, which no lock guards.            *)

Halfpast2 == <<"1", "4", ":", "3", "0">>

GoodReceipt ==
    Receipt(Target, OddDay, Halfpast2, <<Item(Abc, FormatCents(1000))>>, BaseTotal)

\* the receipt of a JSON body without "total": the field keeps its zero value
NoTotalReceipt == [GoodReceipt EXCEPT !.Total = <<>>]

ServiceReceipts ==
    {GoodReceipt,
     NoTotalReceipt,
     [GoodReceipt EXCEPT !.Retailer = <<"M", "&", "M">>],
     [GoodReceipt EXCEPT !.PurchaseDate = <<"2", "0", "2", "2", "-", "0", "2", "-", "3", "0">>],
     [GoodReceipt EXCEPT !.PurchaseTime = <<"2", "4", ":", "0", "0">>],
     [GoodReceipt EXCEPT !.Items = <<Item(<<>>, FormatCents(1000))>>],
     [GoodReceipt EXCEPT !.Items = <<Item(Abc, Abc)>>]}

\* a request body: one BindJSON fails on, or the receipt it is bound to
BadJSON == [bindErr |-> TRUE, receipt |-> NoWrite.receipt]

Payloads == {[bindErr |-> FALSE, receipt |-> r] : r \in ServiceReceipts} \cup {BadJSON}

\* the identifiers a client may ask for: those generateID can hand out here
Ids == 1..MaxReceipts

\* Another goroutine is inside its write of the map (main.go:93) while w
\* accesses the map: a data race.
Racing(w) == \E v \in Workers \ {w} : pc[v] = "storing"

\* What a racing access of the map can come to: the runtime notices it and
\* ends the process ("fatal error: concurrent map writes" or "concurrent map
\* read and map write"), or it goes unnoticed and the access works, or it
\* goes unnoticed and the access goes wrong.
RaceOutcomes(w) == IF Racing(w) THEN {"fatal", "unnoticed", "wrong"} ELSE {"none"}

\* the process ends: the map is gone with it
Fatal ==
    /\ crashed' = TRUE
    /\ receipts' = <<>>
    /\ pc' = [w \in Workers |-> "idle"]
    /\ held' = [w \in Workers |-> NoWrite]
    /\ UNCHANGED <<nextID, resp>>

\* the map m without the entries outside keep
Restrict(m, keep) == [id \in keep |-> m[id]]

\* processReceipts up to the start of the write of the map, without the
\* validation (as in part_000:43-59)
processReceiptsUnchecked(w, payload, idErr) ==
    /\ ~crashed
    /\ pc[w] = "idle"
    /\ UNCHANGED coreVars
    /\ IF payload.bindErr
       THEN /\ resp' = [NoResponse EXCEPT !.op = "process", !.status = 400,
                                          !.error = "bind"]
            /\ UNCHANGED <<receipts, nextID, pc, held, crashed>>
       ELSE IF idErr
       THEN /\ resp' = [NoResponse EXCEPT !.op = "process", !.status = 500,
                                          !.error = "panic"]
            /\ UNCHANGED <<receipts, nextID, pc, held, crashed>>
       ELSE /\ nextID < MaxReceipts
            /\ \E outcome \in RaceOutcomes(w) :
                  IF outcome = "fatal" THEN Fatal
                  ELSE /\ nextID' = nextID + 1
                       /\ pc' = [pc EXCEPT ![w] = "storing"]
                       /\ held' = [held EXCEPT ![w] =
                                     [id |-> nextID + 1, receipt |-> payload.receipt]]
                       /\ IF outcome = "wrong"
                          THEN \E keep \in SUBSET (DOMAIN receipts) :
                                  receipts' = Restrict(receipts, keep)
                          ELSE receipts' = receipts
                       /\ UNCHANGED <<resp, crashed>>

\* processReceipts (main.go:50-93) up to the start of the write of the map.
\* idErr: uuid.NewRandom fails, and generateID panics (main.go:36-39); the
\* Recovery middleware of gin.Default() (main.go:179) answers 500.
processReceipts(w, payload, idErr) ==
    /\ ~crashed
    /\ pc[w] = "idle"
    /\ UNCHANGED coreVars
    /\ IF payload.bindErr
       THEN /\ resp' = [NoResponse EXCEPT !.op = "process", !.status = 400,
                                          !.error = "bind"]
            /\ UNCHANGED <<receipts, nextID, pc, held, crashed>>
       ELSE IF Validate(payload.receipt) # "ok"
       THEN /\ resp' = [NoResponse EXCEPT !.op = "process", !.status = 400,
                                          !.error = Validate(payload.receipt)]
            /\ UNCHANGED <<receipts, nextID, pc, held, crashed>>
       ELSE IF idErr
       THEN /\ resp' = [NoResponse EXCEPT !.op = "process", !.status = 500,
                                          !.error = "panic"]
            /\ UNCHANGED <<receipts, nextID, pc, held, crashed>>
       ELSE /\ nextID < MaxReceipts
            /\ \E outcome \in RaceOutcomes(w) :
                  IF outcome = "fatal" THEN Fatal
                  ELSE /\ nextID' = nextID + 1
                       /\ pc' = [pc EXCEPT ![w] = "storing"]
                       /\ held' = [held EXCEPT ![w] =
                                     [id |-> nextID + 1, receipt |-> payload.receipt]]
                       /\ IF outcome = "wrong"
                          THEN \E keep \in SUBSET (DOMAIN receipts) :
                                  receipts' = Restrict(receipts, keep)
                          ELSE receipts' = receipts
                       /\ UNCHANGED <<resp, crashed>>

\* the end of the write receipts[id] = receipt and the answer (main.go:93-99)
storeReceipt(w) ==
    /\ ~crashed
    /\ pc[w] = "storing"
    /\ receipts' = [id \in DOMAIN receipts \cup {held[w].id} |->
                       IF id = held[w].id THEN held[w].receipt ELSE receipts[id]]
    /\ pc' = [pc EXCEPT ![w] = "idle"]
    /\ held' = [held EXCEPT ![w] = NoWrite]
    /\ resp' = [NoResponse EXCEPT !.op = "process", !.status = 200, !.id = held[w].id]
    /\ UNCHANGED <<nextID, crashed>>
    /\ UNCHANGED coreVars

\* the answer of getPoints once the lookup has found, or not, a receipt
PointsResponse(found, receipt) ==
    IF ~found
    THEN [NoResponse EXCEPT !.op = "points", !.status = 404,
                            !.error = "Receipt not found"]
    ELSE LET points == calculatePoints(receipt)
         IN  IF points.kind = "panic"
             THEN [NoResponse EXCEPT !.op = "points", !.status = 500, !.error = "panic"]
             ELSE [NoResponse EXCEPT !.op = "points", !.status = 200,
                                     !.points = points.points]

\* getPoints (main.go:158-174)
getPoints(w, id) ==
    /\ ~crashed
    /\ pc[w] = "idle"
    /\ UNCHANGED coreVars
    /\ \E outcome \in RaceOutcomes(w) :
          IF outcome = "fatal" THEN Fatal
          ELSE /\ resp' = IF outcome = "wrong" \/ id \notin DOMAIN receipts
                          THEN PointsResponse(FALSE, NoWrite.receipt)
                          ELSE PointsResponse(TRUE, receipts[id])
               /\ UNCHANGED <<receipts, nextID, pc, held, crashed>>

Init ==
    /\ ServiceInit
    /\ input = NoWrite.receipt
    /\ phase = "off"
    /\ verdict = "none"
    /\ score = NoScore
    /\ scoreOld = NoScore

\* requests are served as they come, any number of them at once
Next ==
    \/ \E w \in Workers, payload \in Payloads, idErr \in BOOLEAN :
          processReceipts(w, payload, idErr)
    \/ \E w \in Workers : storeReceipt(w)
    \/ \E w \in Workers, id \in Ids : getPoints(w, id)

Spec == Init /\ [][Next]_vars

\* one request at a time: a single goroutine serves them all
SerialNext ==
    \/ \E payload \in Payloads, idErr \in BOOLEAN : processReceipts(1, payload, idErr)
    \/ storeReceipt(1)
    \/ \E id \in Ids : getPoints(1, id)

SpecSerial == Init /\ [][SerialNext]_vars

---------------------------------------------------------------------------
(* Properties of the service                                               *)

ValidationReasons ==
    {"Invalid retailer name", "Invalid purchase date", "Invalid purchase time",
     "Item description cannot be empty", "Invalid item price"}

\* the invariants of the data model (a price is a non-negative number when
\* it parses and has no minus sign)
WellFormed(receipt) ==
    /\ RetailerMatch(receipt.Retailer)
    /\ ~ParseDate(receipt.PurchaseDate).err
    /\ ~ParseTime(receipt.PurchaseTime).err
    /\ \A i \in 1..Len(receipt.Items) :
          /\ receipt.Items[i].ShortDescription # <<>>
          /\ ParseFloatOk(receipt.Items[i].Price)
          /\ receipt.Items[i].Price[1] # "-"
    /\ ParseFloatOk(receipt.Total)

(* C4.  Every receipt held in the map satisfies the invariants of the data *)
(* model, a total that parses as a number among them.                      *)
C4_StoredReceiptsWellFormed ==
    \A id \in DOMAIN receipts : WellFormed(receipts[id])

(* C5.  No step removes an entry of the map or changes the receipt under   *)
(* an identifier, and getPoints of a stored identifier answers with the    *)
(* points of the receipt stored under it, however the requests interleave. *)
C5_ReadYourWrites ==
    [][/\ \A id \in DOMAIN receipts :
             id \in DOMAIN receipts' /\ receipts'[id] = receipts[id]
       /\ \A w \in Workers, id \in DOMAIN receipts :
             getPoints(w, id) => resp' = PointsResponse(TRUE, receipts[id])]_vars

\* the submission of payload does not succeed
SubmissionFails(payload, idErr) ==
    payload.bindErr \/ Validate(payload.receipt) # "ok" \/ idErr

\* goroutine w can take a request
CanServe(w) == ~crashed /\ pc[w] = "idle"

(* C9.  A submission that is rejected, or whose identifier cannot be       *)
(* generated, leaves the map, the identifiers handed out and the writes in *)
(* progress as they were; a rejection answers 400 with its reason, the     *)
(* failure of generateID answers 500 with none of the validation reasons;  *)
(* and the goroutine is free for the next request.                         *)
C9_FailedSubmissionKeepsStore ==
    [][\A w \in Workers, payload \in Payloads, idErr \in BOOLEAN :
          (processReceipts(w, payload, idErr) /\ SubmissionFails(payload, idErr)) =>
             /\ receipts' = receipts
             /\ nextID' = nextID
             /\ pc' = pc
             /\ held' = held
             /\ CanServe(w)'
             /\ resp'.op = "process"
             /\ IF payload.bindErr THEN resp'.status = 400
                ELSE IF Validate(payload.receipt) # "ok"
                THEN /\ resp'.status = 400
                     /\ resp'.error = Validate(payload.receipt)
                     /\ resp'.error \in ValidationReasons
                ELSE /\ resp'.status = 500
                     /\ resp'.error \notin ValidationReasons]_vars

\* generateID has failed for a request while the map held a receipt and
\* another request was in the middle of its write
C9_Witness ==
    /\ resp.op = "process"
    /\ resp.status = 500
    /\ DOMAIN receipts # {}
    /\ \E w \in Workers : pc[w] = "storing"
    /\ ~crashed

(* C10.  getPoints answers "not found" for an identifier that is no key of *)
(* the map and with points for one that is, and leaves the map as it was.  *)
C10_LookupOutcome ==
    [][\A w \in Workers, id \in Ids :
          getPoints(w, id) =>
             /\ receipts' = receipts
             /\ resp'.op = "points"
             /\ IF id \in DOMAIN receipts
                THEN resp'.status = 200
                ELSE resp'.status = 404 /\ resp'.error = "Receipt not found"]_vars

=============================================================================
